---- MODULE Spec2Model ----
(***************************************************************************)
(* Flux-vector control for synchronous motor drives                        *)
(* (motulator/control/sm_flux_vector.py).                                  *)
(*                                                                         *)
(* Numbers.  The program computes with Python floats and complex numbers.  *)
(* Here every signal is an integer multiple of one quantum and a complex   *)
(* number is a record [re, im] of two such integers.  +, - and * are       *)
(* exact.  The gain k_tau, the only stored quotient, is kept as an exact   *)
(* fraction <<n, d>> (d > 0, lowest terms).  Inside a tick, a quotient or  *)
(* a square root is rounded toward minus infinity to the quantum (FloorDiv,*)
(* ISqrt), the fixed-point counterpart of the rounding of a float.         *)
(* Angles are whole quarter turns, for which exp(j*theta) is exact; pi is  *)
(* two quarter turns.                                                      *)
(***************************************************************************)
EXTENDS Integers, Sequences, FiniteSets, TLC

\* Number of ticks of the control loop that a behaviour runs.
MaxTicks == 2

\* Python's None, for an optional number: <<>> is None and <<v>> is v.
None == <<>>
Some(v) == <<v>>

----------------------------------------------------------------------------
\* Arithmetic helpers

AbsInt(a) == IF a < 0 THEN -a ELSE a

SignInt(a) == IF a < 0 THEN -1 ELSE IF a > 0 THEN 1 ELSE 0

RECURSIVE GCD(_, _)
GCD(a, b) == IF b = 0 THEN a ELSE GCD(b, a % b)

\* Python's a/b on exact values: the fraction n/d in lowest terms, d > 0.
Rat(n, d) ==
    LET g == GCD(AbsInt(n), AbsInt(d))
        s == SignInt(d)
    IN  <<(s * n) \div g, (s * d) \div g>>

RatInt(a) == <<a, 1>>
RatAdd(x, y) == Rat(x[1] * y[2] + y[1] * x[2], x[2] * y[2])
RatSub(x, y) == Rat(x[1] * y[2] - y[1] * x[2], x[2] * y[2])
RatMul(x, y) == Rat(x[1] * y[1], x[2] * y[2])
RatDiv(x, y) == Rat(x[1] * y[2], x[2] * y[1])

\* Quotient rounded toward minus infinity.
FloorDiv(a, b) == IF b > 0 THEN a \div b ELSE (-a) \div (-b)

\* A fraction rounded to the quantum.
RatFloor(x) == FloorDiv(x[1], x[2])

\* Square root rounded toward minus infinity.
ISqrt(n) == CHOOSE r \in 0..n : r * r <= n /\ n < (r + 1) * (r + 1)

Cplx(a, b) == [re |-> a, im |-> b]
CAdd(x, y) == Cplx(x.re + y.re, x.im + y.im)
CSub(x, y) == Cplx(x.re - y.re, x.im - y.im)
CScale(k, x) == Cplx(k * x.re, k * x.im)
\* 1j*x
CMulJ(x) == Cplx(-x.im, x.re)
CMul(x, y) == Cplx(x.re * y.re - x.im * y.im, x.re * y.im + x.im * y.re)
CConj(x) == Cplx(x.re, -x.im)

\* np.exp(1j*theta) for theta a whole number of quarter turns.
ExpJ(theta) ==
    LET q == theta % 4
    IN  IF q = 0 THEN Cplx(1, 0)
        ELSE IF q = 1 THEN Cplx(0, 1)
        ELSE IF q = 2 THEN Cplx(-1, 0)
        ELSE Cplx(0, -1)

Clamp(x, lo, hi) == IF x < lo THEN lo ELSE IF x > hi THEN hi ELSE x

----------------------------------------------------------------------------
\* SynchronousMotorFluxVectorCtrlPars

\* Default speed reference, lambda t: (t > .2)*(2*np.pi*75): a step.
w_m_ref(t) == IF t > 0 THEN 2 ELSE 0

\* Parameter records.  The fields the modelled code reads; the remaining
\* fields of the dataclass are read only by the external subsystems.
MkPars(sl, ts, ld, lq, pf, pmin, rs, gg, pp) ==
    [sensorless |-> sl, T_s |-> ts, psi_s_min |-> pmin, alpha_psi |-> 1,
     alpha_tau |-> 2, tau_M_max |-> 2, R_s |-> rs, L_d |-> ld, L_q |-> lq,
     psi_f |-> pf, p |-> pp, g |-> gg]

----------------------------------------------------------------------------
\* FluxTorqueCtrl

\* G = (pars.L_d - pars.L_q)/(pars.L_d*pars.L_q); defined when L_d*L_q # 0.
Saliency(pars) == Rat(pars.L_d - pars.L_q, pars.L_d * pars.L_q)

\* psi_s0 = pars.psi_f if pars.psi_f > 0 else pars.psi_s_min
psi_s0(pars) == IF pars.psi_f > 0 THEN Some(pars.psi_f) ELSE pars.psi_s_min

\* c_delta0 without the branch for machines with no magnet flux.
c_delta0NoBranch(pars) ==
    LET G == Saliency(pars)
        s0 == psi_s0(pars)[1]
        k == Rat(3 * pars.p, 2)
    IN  RatMul(k, RatSub(Rat(pars.psi_f * s0, pars.L_d),
                         RatMul(G, RatInt(s0 * s0))))

\* c_delta0; defined when L_d*L_q # 0 and psi_s0 is a number.
c_delta0(pars) ==
    LET G == Saliency(pars)
        s0 == psi_s0(pars)[1]
        k == Rat(3 * pars.p, 2)
    IN  IF pars.psi_f > 0
        THEN RatMul(k, RatSub(Rat(pars.psi_f * s0, pars.L_d),
                              RatMul(G, RatInt(s0 * s0))))
        ELSE RatMul(k, RatMul(G, RatInt(s0 * s0)))

\* FluxTorqueCtrl.__init__: the object, or the exception Python raises.
FluxTorqueCtrlInit(pars) ==
    IF pars.L_d * pars.L_q = 0
    THEN [ok |-> FALSE, err |-> "ZeroDivisionError"]
    ELSE IF psi_s0(pars) = None
    THEN [ok |-> FALSE, err |-> "TypeError"]
    ELSE IF c_delta0(pars)[1] = 0
    THEN [ok |-> FALSE, err |-> "ZeroDivisionError"]
    ELSE [ok |-> TRUE, T_s |-> pars.T_s, R_s |-> pars.R_s, p |-> pars.p,
          alpha_psi |-> pars.alpha_psi,
          k_tau |-> RatDiv(RatInt(pars.alpha_tau), c_delta0(pars))]

\* FluxTorqueCtrl.__call__: the unlimited voltage reference.
FluxTorqueCtrlCall(self, psi_s_ref, tau_M_ref, psi_s, i_s, w_m) ==
    LET \* tau_M = 1.5*self.p*np.imag(i_s*np.conj(psi_s))
        tau_M == Rat(3 * self.p * CMul(i_s, CConj(psi_s)).im, 2)
        \* w_s = w_m + self.k_tau*(tau_M_ref - tau_M)
        w_s == RatAdd(RatInt(w_m),
                      RatMul(self.k_tau, RatSub(RatInt(tau_M_ref), tau_M)))
        abs == ISqrt(psi_s.re * psi_s.re + psi_s.im * psi_s.im)
        e_psi == psi_s_ref - abs
        \* 1j*w_s*psi_s
        emf == Cplx(RatFloor(RatMul(w_s, RatInt(-psi_s.im))),
                    RatFloor(RatMul(w_s, RatInt(psi_s.re))))
        \* self.alpha_psi*e_psi*np.exp(1j*delta), delta = np.angle(psi_s):
        \* exp(1j*delta) is psi_s/|psi_s|, and 1 for psi_s = 0.
        prop == IF abs = 0
                THEN Cplx(self.alpha_psi * e_psi, 0)
                ELSE Cplx(FloorDiv(self.alpha_psi * e_psi * psi_s.re, abs),
                          FloorDiv(self.alpha_psi * e_psi * psi_s.im, abs))
    IN  CAdd(CAdd(CScale(self.R_s, i_s), emf), prop)

----------------------------------------------------------------------------
\* Observer (sensored)

ObserverInit(pars) ==
    [T_s |-> pars.T_s, R_s |-> pars.R_s, L_d |-> pars.L_d, L_q |-> pars.L_q,
     psi_f |-> pars.psi_f, g |-> pars.g, psi_s |-> Cplx(pars.psi_f, 0)]

\* Observer.update writing the real part first and reading it back for the
\* imaginary part.
ObserverUpdateSequential(self, u_s, i_s, w_m) ==
    LET re == self.psi_s.re + self.T_s * (u_s.re - self.R_s * i_s.re
                 + w_m * self.psi_s.im
                 + self.g * (self.L_d * i_s.re + self.psi_f - self.psi_s.re))
        im == self.psi_s.im + self.T_s * (u_s.im - self.R_s * i_s.im
                 - w_m * re
                 + self.g * (self.L_q * i_s.im - self.psi_s.im))
    IN  [self EXCEPT !.psi_s = Cplx(re, im)]

\* Observer.update: the observer after the update.
ObserverUpdate(self, u_s, i_s, w_m) ==
    LET e == CSub(CAdd(Cplx(self.L_d * i_s.re, self.L_q * i_s.im),
                       Cplx(self.psi_f, 0)),
                  self.psi_s)
        d == CAdd(CSub(CSub(u_s, CScale(self.R_s, i_s)),
                       CScale(w_m, CMulJ(self.psi_s))),
                  CScale(self.g, e))
    IN  [self EXCEPT !.psi_s = CAdd(self.psi_s, CScale(self.T_s, d))]

----------------------------------------------------------------------------
\* External subsystems (motulator.control.common, sm_vector, sm_obs_vhz)

\* np.mod(x + np.pi, 2*np.pi) - np.pi, in quarter turns.
WrapAngle(x) == ((x + 2) % 4) - 2

\* SensorlessObserver: exposes psi_s, w_m, theta_m; update(u_s, i_s, w_m)
\* changes its own state only.  The speed estimate moves by at most one
\* quantum per update, within [0, 1].
SensorlessObserverInit(pars) ==
    [T_s |-> pars.T_s, R_s |-> pars.R_s, L_d |-> pars.L_d, L_q |-> pars.L_q,
     psi_f |-> pars.psi_f, g |-> pars.g, psi_s |-> Cplx(pars.psi_f, 0),
     w_m |-> 0, theta_m |-> 0]

SensorlessObserverUpdates(self, u_s, i_s, w_m) ==
    { [ObserverUpdate(self, u_s, i_s, w_m) EXCEPT
          !.w_m = w, !.theta_m = WrapAngle(self.theta_m + self.T_s * w)] :
      w \in {self.w_m, 1 - self.w_m} }

\* SpeedCtrl: output(w_M_ref, w_M) gives the torque reference;
\* update(tau_M_ref_lim) takes the applied torque reference.
SpeedCtrlInit(pars) == [tau_i |-> 0]
SpeedCtrlOutput(self, w_M_ref, w_M) == (w_M_ref - w_M) + self.tau_i
SpeedCtrlUpdate(self, tau_M_ref_lim) == [self EXCEPT !.tau_i = tau_M_ref_lim]

\* FluxTorqueRef: (tau_M_ref, w_m, u_dc) -> (psi_s_ref, tau_M_ref_lim),
\* enforcing the torque and voltage ceilings.
FluxTorqueRefInit(pars) ==
    [psi_s_nom |-> psi_s0(pars)[1], tau_M_max |-> pars.tau_M_max]
FluxTorqueRefCall(self, tau_M_ref, w_m, u_dc) ==
    LET lim == IF w_m = 0 THEN self.psi_s_nom
               ELSE FloorDiv(u_dc, AbsInt(w_m))
    IN  <<IF lim < self.psi_s_nom THEN lim ELSE self.psi_s_nom,
          Clamp(tau_M_ref, -self.tau_M_max, self.tau_M_max)>>

\* PWM: output(u_s_ref, u_dc, theta_m, w_m) gives the duty-ratio command and
\* the realized (limited) voltage; update(u_s_ref_lim) keeps the realized
\* voltage for the next tick.
PWMInit(pars) == [realized_voltage |-> Cplx(0, 0)]
PWMOutput(self, u_s_ref, u_dc, theta_m, w_m) ==
    LET lim == Cplx(Clamp(u_s_ref.re, -u_dc, u_dc),
                    Clamp(u_s_ref.im, -u_dc, u_dc))
    IN  <<CMul(ExpJ(theta_m), lim), lim>>
PWMUpdate(self, u_s_ref_lim) == [self EXCEPT !.realized_voltage = u_s_ref_lim]

\* Ctrl (base class): the clock t and the telemetry log data.
CtrlInit == [t |-> 0, data |-> <<>>]
\* Ctrl.save(data): appends the record to the log.
CtrlSave(self, rec) == [self EXCEPT !.data = Append(self.data, rec)]
\* Ctrl.update_clock(T_s): advances the clock by T_s.
CtrlUpdateClock(self, T_s) == [self EXCEPT !.t = self.t + T_s]

\* abc2complex(mdl.motor.meas_currents()), mdl.conv.meas_dc_voltage(),
\* mdl.mech.meas_speed(), mdl.mech.meas_position(): what one tick may measure.
\* The current is sampled as its space vector in stator coordinates.
FeedbackSamples ==
    { [i_s_abc |-> i, u_dc |-> u, w_M |-> m[1], theta_M |-> m[2]] :
      i \in {Cplx(0, 0), Cplx(1, 1), Cplx(-1, 0)}, u \in {1, 2},
      m \in {<<0, 0>>, <<1, 1>>} }

----------------------------------------------------------------------------
\* SynchronousMotorFluxVectorCtrl

VARIABLES
    pc,          \* the line of the source to run next
    pars,        \* the SynchronousMotorFluxVectorCtrlPars given to __init__
    self,        \* the SynchronousMotorFluxVectorCtrl object, None before
    loc,         \* the local variables of __call__
    ret,         \* the value the last __call__ returned, None before
    raised,      \* the exception __init__ raised, None if none
    ticks,       \* history: the number of completed calls of __call__
    last_update  \* history: calls of observer.update in this tick, the
                 \* arguments of the last one and the estimate it committed

vars == <<pc, pars, self, loc, ret, raised, ticks, last_update>>

Zero == Cplx(0, 0)

\* __call__'s frame before any local is assigned.
NoLocals ==
    [w_m_ref |-> 0, i_s_abc |-> Zero, u_dc |-> 0, u_s |-> Zero, w_m |-> 0,
     theta_m |-> 0, i_s |-> Zero, psi_s |-> Zero, tau_M_ref |-> 0,
     psi_s_ref |-> 0, tau_M_ref_lim |-> 0, u_s_ref |-> Zero,
     d_abc_ref |-> Zero, u_s_ref_lim |-> Zero, w_M |-> 0, theta_M |-> 0]

\* Parameter sets the controller is constructed with.
ParsSet ==
    { MkPars(FALSE, ts, l[1], l[2], pf, pmin, rg[1], rg[2], pp) :
        ts \in {0, 1},
        l \in {<<1, 2>>, <<2, 1>>, <<1, 1>>, <<3, 1>>, <<-1, 1>>, <<0, 1>>,
               <<1, 0>>},
        pf \in {0, 1}, pmin \in {None, Some(2)},
        rg \in {<<0, 0>>, <<1, 1>>}, pp \in {1, 2} }
    \cup { MkPars(FALSE, 1, l[1], l[2], pf, pmin, 1, 1, 1) :
             l \in {<<1, 2>>, <<2, 1>>, <<1, 1>>},
             pf \in {-1, 0}, pmin \in {None, Some(0), Some(1), Some(2)} }
    \cup { MkPars(TRUE, 1, 1, 2, 1, None, 1, 1, pp) : pp \in {1, 2} }

Init ==
    /\ pc = "init"
    /\ pars \in ParsSet
    /\ self = None
    /\ loc = NoLocals
    /\ ret = None
    /\ raised = None
    /\ ticks = 0
    /\ last_update = [n |-> 0, u_s |-> Zero, i_s |-> Zero, w_m |-> 0,
                      psi_s |-> Zero]

\* SynchronousMotorFluxVectorCtrl.__init__
Construct ==
    /\ pc = "init"
    /\ LET ftc == FluxTorqueCtrlInit(pars)
       IN  IF ftc.ok
           THEN /\ self' = [T_s |-> pars.T_s, p |-> pars.p,
                            sensorless |-> pars.sensorless,
                            t |-> CtrlInit.t, data |-> CtrlInit.data,
                            flux_torque_ctrl |-> ftc,
                            speed_ctrl |-> SpeedCtrlInit(pars),
                            pwm |-> PWMInit(pars),
                            observer |-> IF pars.sensorless
                                         THEN SensorlessObserverInit(pars)
                                         ELSE ObserverInit(pars),
                            flux_torque_ref |-> FluxTorqueRefInit(pars)]
                /\ last_update' = [last_update EXCEPT
                                      !.psi_s = self'.observer.psi_s]
                /\ pc' = "l122"
                /\ UNCHANGED raised
           ELSE /\ raised' = Some(ftc.err)
                /\ pc' = "error"
                /\ UNCHANGED <<self, last_update>>
    /\ UNCHANGED <<pars, loc, ret, ticks>>

\* __call__, lines 121-143: the speed reference, the feedback signals, the
\* current in rotor coordinates and the flux estimate.
Feedback ==
    /\ pc = "l122"
    /\ ticks < MaxTicks
    /\ \E fb \in FeedbackSamples :
         LET w_m == IF self.sensorless THEN self.observer.w_m
                    ELSE self.p * fb.w_M
             theta_m == IF self.sensorless THEN self.observer.theta_m
                        ELSE WrapAngle(self.p * fb.theta_M)
         IN  loc' = [NoLocals EXCEPT
                        !.w_m_ref = w_m_ref(self.t),
                        !.i_s_abc = fb.i_s_abc,
                        !.u_dc = fb.u_dc,
                        !.w_M = fb.w_M,
                        !.theta_M = fb.theta_M,
                        !.u_s = self.pwm.realized_voltage,
                        !.w_m = w_m,
                        !.theta_m = theta_m,
                        !.i_s = CMul(ExpJ(-theta_m), fb.i_s_abc),
                        !.psi_s = self.observer.psi_s]
    /\ last_update' = [last_update EXCEPT !.n = 0]
    /\ pc' = "l146"
    /\ UNCHANGED <<pars, self, ret, raised, ticks>>

\* lines 146-147: the outer speed loop and the reference shaping.
References ==
    /\ pc = "l146"
    /\ LET tau_M_ref == SpeedCtrlOutput(self.speed_ctrl,
                                        FloorDiv(loc.w_m_ref, self.p),
                                        FloorDiv(loc.w_m, self.p))
           r == FluxTorqueRefCall(self.flux_torque_ref, tau_M_ref,
                                  loc.w_m, loc.u_dc)
       IN  loc' = [loc EXCEPT !.tau_M_ref = tau_M_ref,
                              !.psi_s_ref = r[1],
                              !.tau_M_ref_lim = r[2]]
    /\ pc' = "l148"
    /\ UNCHANGED <<pars, self, ret, raised, ticks, last_update>>

\* The regulator fed an estimate advanced within the tick.
RegulateAfterUpdate ==
    /\ pc = "l148"
    /\ loc' = [loc EXCEPT !.u_s_ref =
                  FluxTorqueCtrlCall(self.flux_torque_ctrl, loc.psi_s_ref,
                      loc.tau_M_ref_lim,
                      ObserverUpdate(self.observer, loc.u_s, loc.i_s,
                                     loc.w_m).psi_s,
                      loc.i_s, loc.w_m)]
    /\ pc' = "l150"
    /\ UNCHANGED <<pars, self, ret, raised, ticks, last_update>>

\* The regulator adapting its gain by the torque reference.
RegulateStoringGain ==
    /\ pc = "l148"
    /\ loc' = [loc EXCEPT !.u_s_ref =
                  FluxTorqueCtrlCall(self.flux_torque_ctrl, loc.psi_s_ref,
                                     loc.tau_M_ref_lim, loc.psi_s, loc.i_s,
                                     loc.w_m)]
    /\ self' = [self EXCEPT !.flux_torque_ctrl.k_tau =
                   RatAdd(@, RatInt(loc.tau_M_ref_lim))]
    /\ pc' = "l150"
    /\ UNCHANGED <<pars, ret, raised, ticks, last_update>>

\* lines 148-149: the flux and torque controller.
Regulate ==
    /\ pc = "l148"
    /\ loc' = [loc EXCEPT !.u_s_ref =
                  FluxTorqueCtrlCall(self.flux_torque_ctrl, loc.psi_s_ref,
                                     loc.tau_M_ref_lim, loc.psi_s, loc.i_s,
                                     loc.w_m)]
    /\ pc' = "l150"
    /\ UNCHANGED <<pars, self, ret, raised, ticks, last_update>>

\* line 150: the modulation stage.
Modulate ==
    /\ pc = "l150"
    /\ LET r == PWMOutput(self.pwm, loc.u_s_ref, loc.u_dc, loc.theta_m,
                          loc.w_m)
       IN  loc' = [loc EXCEPT !.d_abc_ref = r[1], !.u_s_ref_lim = r[2]]
    /\ pc' = "l153"
    /\ UNCHANGED <<pars, self, ret, raised, ticks, last_update>>

\* Data logging that also advances the clock.
SaveAdvancingClock ==
    /\ pc = "l153"
    /\ self' = CtrlUpdateClock(CtrlSave(self,
                   [i_s |-> loc.i_s, psi_s |-> loc.psi_s,
                    psi_s_ref |-> loc.psi_s_ref, t |-> self.t,
                    tau_M_ref_lim |-> loc.tau_M_ref_lim,
                    theta_m |-> loc.theta_m, u_dc |-> loc.u_dc,
                    u_s |-> loc.u_s, w_m |-> loc.w_m,
                    w_m_ref |-> loc.w_m_ref]), self.T_s)
    /\ pc' = "l168"
    /\ UNCHANGED <<pars, loc, ret, raised, ticks, last_update>>

\* lines 152-165: data logging.
Save ==
    /\ pc = "l153"
    /\ self' = CtrlSave(self,
                   [i_s |-> loc.i_s, psi_s |-> loc.psi_s,
                    psi_s_ref |-> loc.psi_s_ref, t |-> self.t,
                    tau_M_ref_lim |-> loc.tau_M_ref_lim,
                    theta_m |-> loc.theta_m, u_dc |-> loc.u_dc,
                    u_s |-> loc.u_s, w_m |-> loc.w_m,
                    w_m_ref |-> loc.w_m_ref])
    /\ pc' = "l168"
    /\ UNCHANGED <<pars, loc, ret, raised, ticks, last_update>>

\* The observer updated with the voltage limited in this tick.
UpdateObserverSameTickVoltage ==
    /\ pc = "l168"
    /\ \E o \in IF self.sensorless
                THEN SensorlessObserverUpdates(self.observer, loc.u_s_ref_lim,
                                               loc.i_s, loc.w_m)
                ELSE {ObserverUpdate(self.observer, loc.u_s_ref_lim, loc.i_s,
                                     loc.w_m)} :
         /\ self' = [self EXCEPT !.observer = o]
         /\ last_update' = [n |-> last_update.n + 1, u_s |-> loc.u_s_ref_lim,
                            i_s |-> loc.i_s, w_m |-> loc.w_m,
                            psi_s |-> o.psi_s]
    /\ pc' = "l169"
    /\ UNCHANGED <<pars, loc, ret, raised, ticks>>

\* line 168: self.observer.update(u_s, i_s, w_m)
UpdateObserver ==
    /\ pc = "l168"
    /\ \E o \in IF self.sensorless
                THEN SensorlessObserverUpdates(self.observer, loc.u_s,
                                               loc.i_s, loc.w_m)
                ELSE {ObserverUpdate(self.observer, loc.u_s, loc.i_s,
                                     loc.w_m)} :
         /\ self' = [self EXCEPT !.observer = o]
         /\ last_update' = [n |-> last_update.n + 1, u_s |-> loc.u_s,
                            i_s |-> loc.i_s, w_m |-> loc.w_m,
                            psi_s |-> o.psi_s]
    /\ pc' = "l169"
    /\ UNCHANGED <<pars, loc, ret, raised, ticks>>

\* line 169: self.speed_ctrl.update(tau_M_ref_lim)
UpdateSpeedCtrl ==
    /\ pc = "l169"
    /\ self' = [self EXCEPT !.speed_ctrl =
                   SpeedCtrlUpdate(self.speed_ctrl, loc.tau_M_ref_lim)]
    /\ pc' = "l170"
    /\ UNCHANGED <<pars, loc, ret, raised, ticks, last_update>>

\* line 170: self.pwm.update(u_s_ref_lim)
UpdatePWM ==
    /\ pc = "l170"
    /\ self' = [self EXCEPT !.pwm = PWMUpdate(self.pwm, loc.u_s_ref_lim)]
    /\ pc' = "l171"
    /\ UNCHANGED <<pars, loc, ret, raised, ticks, last_update>>

\* The clock advanced by two sampling periods.
UpdateClockTwice ==
    /\ pc = "l171"
    /\ self' = CtrlUpdateClock(CtrlUpdateClock(self, self.T_s), self.T_s)
    /\ pc' = "l173"
    /\ UNCHANGED <<pars, loc, ret, raised, ticks, last_update>>

\* line 171: self.update_clock(self.T_s)
UpdateClock ==
    /\ pc = "l171"
    /\ self' = CtrlUpdateClock(self, self.T_s)
    /\ pc' = "l173"
    /\ UNCHANGED <<pars, loc, ret, raised, ticks, last_update>>

\* line 173: return self.T_s, d_abc_ref
Return ==
    /\ pc = "l173"
    /\ ret' = Some(<<self.T_s, loc.d_abc_ref>>)
    /\ ticks' = ticks + 1
    /\ pc' = "l122"
    /\ UNCHANGED <<pars, self, loc, raised, last_update>>

Next ==
    \/ Construct
    \/ Feedback
    \/ References
    \/ Regulate
    \/ Modulate
    \/ Save
    \/ UpdateObserver
    \/ UpdateSpeedCtrl
    \/ UpdatePWM
    \/ UpdateClock
    \/ Return

Spec == Init /\ [][Next]_vars

----------------------------------------------------------------------------
\* Properties

Constructed == pc \notin {"init", "error"}

\* __call__ has read the estimate and has not yet updated the observer.
BeforeUpdate == pc \in {"l146", "l148", "l150", "l153", "l168"}
\* __call__ has called observer.update and has not yet returned.
AfterUpdate == pc \in {"l169", "l170", "l171", "l173"}

InvalidPars == pars.T_s = 0 \/ pars.L_d <= 0 \/ pars.L_q <= 0

\* C1: in sensored mode the regulator's voltage reference of a tick is
\* computed from the flux estimate committed by the previous tick's
\* observer.update (psi_f in the first tick); the estimate is written once
\* per tick, by observer.update, after the regulator has returned.
C1_EstimateFromPreviousTick ==
    (Constructed /\ ~self.sensorless) =>
        /\ self.observer.psi_s = last_update.psi_s
        /\ ticks = 0 /\ (pc = "l122" \/ BeforeUpdate)
              => last_update.psi_s = Cplx(pars.psi_f, 0)
        /\ BeforeUpdate => last_update.n = 0 /\ loc.psi_s = last_update.psi_s
        /\ pc \in {"l150", "l153", "l168"} =>
              loc.u_s_ref =
                  FluxTorqueCtrlCall(self.flux_torque_ctrl, loc.psi_s_ref,
                      loc.tau_M_ref_lim, last_update.psi_s, loc.i_s, loc.w_m)
        /\ AfterUpdate => last_update.n = 1
        /\ pc = "l122" /\ ticks > 0 => last_update.n = 1

\* A second tick regulates on an estimate that the first tick's update moved.
C1_Witness ==
    /\ pc = "l150"
    /\ ~self.sensorless
    /\ ticks = 1
    /\ loc.psi_s # Cplx(pars.psi_f, 0)
    /\ loc.u_s_ref # Zero

\* C2 as claimed: the voltage passed to observer.update is the limited
\* voltage that pwm.output returned in the same tick.
C2_VoltageOfSameTick ==
    (Constructed /\ ~InvalidPars /\ AfterUpdate) =>
        last_update.u_s = loc.u_s_ref_lim

\* C2 as amended: the voltage passed to observer.update is
\* pwm.realized_voltage as read at the start of the tick, the value that the
\* previous tick's pwm.update left (the initial one in the first tick).
C2_VoltageOfPreviousTick ==
    (Constructed /\ AfterUpdate) =>
        /\ last_update.u_s = loc.u_s
        /\ pc \in {"l169", "l170"} =>
              last_update.u_s = self.pwm.realized_voltage
        /\ last_update.u_s = self.data[Len(self.data)].u_s
        /\ ticks = 0 => last_update.u_s = PWMInit(pars).realized_voltage

\* The observer is updated with a voltage that differs from this tick's.
C2_Witness ==
    /\ pc = "l169"
    /\ ticks = 1
    /\ last_update.u_s # Zero
    /\ last_update.u_s # loc.u_s_ref_lim

\* C3: construction with a zero sampling period or a non-positive inductance
\* fails, and no such controller runs a tick.
C3_InvalidParsRejected ==
    InvalidPars => pc \in {"init", "error"} /\ ret = None

\* The gain as the fraction alpha_tau/(1.5*p*G*psi_s_min^2), cross-multiplied.
GainIsReluctanceFormula ==
    self.flux_torque_ctrl.k_tau[1] * 3 * pars.p * (pars.L_d - pars.L_q)
            * pars.psi_s_min[1] * pars.psi_s_min[1]
        = self.flux_torque_ctrl.k_tau[2] * 2 * pars.alpha_tau
            * pars.L_d * pars.L_q

\* The gain as alpha_tau/(1.5*p*(psi_f*psi_f/L_d - G*psi_f^2)),
\* cross-multiplied.
GainIsMagnetFormula ==
    self.flux_torque_ctrl.k_tau[1] * 3 * pars.p * pars.psi_f * pars.psi_f
            * (2 * pars.L_q - pars.L_d)
        = self.flux_torque_ctrl.k_tau[2] * 2 * pars.alpha_tau
            * pars.L_d * pars.L_q

\* C4 as claimed, for a positive sampling period and positive inductances: with psi_f <= 0 construction
\* fails without psi_s_min and succeeds with it, giving the reluctance
\* formula; with psi_f > 0 the gain is the magnet formula.
C4_GainAsClaimed ==
    (pc # "init" /\ ~InvalidPars) =>
        /\ pars.psi_f <= 0 /\ pars.psi_s_min = None => pc = "error"
        /\ pars.psi_f <= 0 /\ pars.psi_s_min # None =>
              pc # "error" /\ GainIsReluctanceFormula
        /\ pars.psi_f > 0 /\ pc # "error" => GainIsMagnetFormula

\* C4 as amended: with psi_f <= 0 construction fails without psi_s_min; with
\* psi_s_min it succeeds exactly when c_delta0 = 1.5*p*G*psi_s_min^2 is
\* defined and nonzero (L_d, L_q nonzero and different, p and psi_s_min
\* nonzero), giving the reluctance formula; with psi_f > 0 a constructed
\* regulator has the magnet formula.
C4_GainAmended ==
    (pc # "init") =>
        /\ pars.psi_f <= 0 /\ pars.psi_s_min = None => pc = "error"
        /\ pars.psi_f <= 0 /\ pars.psi_s_min # None =>
              /\ pc # "error" <=>
                    /\ pars.L_d # 0
                    /\ pars.L_q # 0
                    /\ pars.L_d # pars.L_q
                    /\ pars.p # 0
                    /\ pars.psi_s_min[1] # 0
              /\ pc # "error" => GainIsReluctanceFormula
        /\ pars.psi_f > 0 /\ pc # "error" => GainIsMagnetFormula
        /\ pc # "error" => self.flux_torque_ctrl.k_tau[2] > 0

\* A reluctance machine constructed with a minimum flux.
C4_Witness ==
    /\ pc = "l122"
    /\ pars.psi_f <= 0
    /\ pars.psi_s_min # None
    /\ self.flux_torque_ctrl.k_tau = <<1, 3>>

\* C5: a constructed regulator has c_delta0 > 0, so k_tau > 0 (stated for a
\* positive sampling period and positive inductances).
C5_SensitivityPositive ==
    (Constructed /\ ~InvalidPars) =>
        c_delta0(pars)[1] > 0 /\ self.flux_torque_ctrl.k_tau[1] > 0

\* C6: observer.update replaces psi by
\* psi + T_s*(u_s - R_s*i_s - j*w_m*psi + g*(L_d*Re(i_s) + j*L_q*Im(i_s)
\* + psi_f - psi)) with the pre-update psi throughout; with g = 0 and R_s = 0
\* this is psi + T_s*(u_s - j*w_m*psi); the initial estimate is psi_f + 0j.
C6_ForwardEulerUpdate ==
    (Constructed /\ ~self.sensorless) =>
        /\ pc = "l122" /\ ticks = 0 =>
              self.observer.psi_s = Cplx(pars.psi_f, 0)
        /\ AfterUpdate =>
              LET old == loc.psi_s
                  u == last_update.u_s
                  i == last_update.i_s
                  w == last_update.w_m
                  new == self.observer.psi_s
              IN  /\ new.re = old.re + pars.T_s * (u.re - pars.R_s * i.re
                         + w * old.im
                         + pars.g * (pars.L_d * i.re + pars.psi_f - old.re))
                  /\ new.im = old.im + pars.T_s * (u.im - pars.R_s * i.im
                         - w * old.re
                         + pars.g * (pars.L_q * i.im - old.im))
                  /\ pars.g = 0 /\ pars.R_s = 0 =>
                        /\ new.re = old.re + pars.T_s * (u.re + w * old.im)
                        /\ new.im = old.im + pars.T_s * (u.im - w * old.re)

\* An update with rotation, correction and a nonzero voltage.
C6_Witness ==
    /\ pc = "l169"
    /\ ~self.sensorless
    /\ pars.g # 0
    /\ last_update.w_m # 0
    /\ last_update.u_s # Zero
    /\ loc.psi_s.im # 0
    /\ self.observer.psi_s # loc.psi_s

\* C8: every tick returns T_s and advances the clock by T_s once, so the
\* clock is T_s times the number of completed ticks; the speed reference of
\* a tick is taken at the clock value before the advance.
C8_ClockAdvance ==
    Constructed =>
        /\ ret = None <=> ticks = 0
        /\ ret # None => ret[1][1] = pars.T_s
        /\ pc # "l173" => self.t = ticks * pars.T_s
        /\ pc = "l173" => self.t = (ticks + 1) * pars.T_s
        /\ BeforeUpdate \/ AfterUpdate =>
              loc.w_m_ref = w_m_ref(ticks * pars.T_s)

\* The second tick has taken a speed reference that the first did not see.
C8_Witness ==
    /\ pc = "l173"
    /\ ticks = 1
    /\ self.t = 2
    /\ loc.w_m_ref # w_m_ref(0)
    /\ ret # None /\ ret[1][1] = 1

C10_RegulatorStateless ==
    [][Constructed =>
        /\ self.flux_torque_ctrl = FluxTorqueCtrlInit(pars)
        /\ self'.flux_torque_ctrl = self.flux_torque_ctrl
        /\ pars' = pars
        /\ pc = "l148" =>
              /\ self' = self
              /\ loc'.u_s_ref =
                    FluxTorqueCtrlCall(FluxTorqueCtrlInit(pars),
                        loc.psi_s_ref, loc.tau_M_ref_lim, loc.psi_s,
                        loc.i_s, loc.w_m)
        /\ self' = [self EXCEPT !.observer = self'.observer,
                                !.speed_ctrl = self'.speed_ctrl,
                                !.pwm = self'.pwm,
                                !.t = self'.t,
                                !.data = self'.data]
      ]_vars

\* Two ticks have run and have moved the observer, the clock and the log.
C10_Witness ==
    /\ pc = "l122"
    /\ ticks = 2
    /\ self.observer.psi_s # Cplx(pars.psi_f, 0)
    /\ self.speed_ctrl # SpeedCtrlInit(pars)
    /\ self.pwm # PWMInit(pars)
    /\ self.t = 2
    /\ Len(self.data) = 2

====
